---------------------------- MODULE Spec2Model ----------------------------
(***************************************************************************)
(* AI-study-buddy backend: the note-to-flashcard pipeline of               *)
(* services/ai_service.py, the create_deck handler of app.py and the       *)
(* preprocessing of utils/text_processing.py.                              *)
(*                                                                         *)
(* A Python str is a sequence of one-character strings, so that strip,     *)
(* lower, split, replace and the regular expressions of the source are     *)
(* computed character by character.  A float with one decimal (a           *)
(* confidence, a sentence score) is the integer number of tenths.          *)
(***************************************************************************)
EXTENDS Integers, Sequences, FiniteSets, TLC

\* ------------------------------------------------------------------------
\* Characters and the str methods the source uses
\* ------------------------------------------------------------------------
Uppers == <<"A", "B", "C", "D", "E", "F", "G", "H", "I", "J", "K", "L", "M",
            "N", "O", "P", "Q", "R", "S", "T", "U", "V", "W", "X", "Y", "Z">>
Lowers == <<"a", "b", "c", "d", "e", "f", "g", "h", "i", "j", "k", "l", "m",
            "n", "o", "p", "q", "r", "s", "t", "u", "v", "w", "x", "y", "z">>
UpperSet == {Uppers[i] : i \in DOMAIN Uppers}
LowerSet == {Lowers[i] : i \in DOMAIN Lowers}
DigitSet == {"0", "1", "2", "3", "4", "5", "6", "7", "8", "9"}
\* str.strip(), str.split() and \s: the whitespace characters
Whitespace == {" ", "\n", "\t"}
\* \w of the re module, for the word boundary \b
WordChars == UpperSet \cup LowerSet \cup DigitSet \cup {"_"}

LowerOf == [c \in UpperSet |-> Lowers[CHOOSE i \in DOMAIN Uppers : Uppers[i] = c]]
LowerChar(c) == IF c \in UpperSet THEN LowerOf[c] ELSE c

\* str.lower()
lower(s) == [i \in 1..Len(s) |-> LowerChar(s[i])]

\* str.isalpha(): non-empty and letters only
isalpha(s) == Len(s) > 0 /\ \A i \in 1..Len(s) : s[i] \in UpperSet \cup LowerSet

\* the first position >= i of s whose character is not in cs (Len(s)+1 if none)
SkipRun(s, i, cs) ==
    IF \E j \in i..Len(s) : s[j] \notin cs
    THEN CHOOSE j \in i..Len(s) : s[j] \notin cs /\ \A k \in i..(j - 1) : s[k] \in cs
    ELSE IF i > Len(s) + 1 THEN i ELSE Len(s) + 1

\* the first position >= i of s whose character is in cs (Len(s)+1 if none)
FirstIn(s, i, cs) ==
    IF \E j \in i..Len(s) : s[j] \in cs
    THEN CHOOSE j \in i..Len(s) : s[j] \in cs /\ \A k \in i..(j - 1) : s[k] \notin cs
    ELSE Len(s) + 1

\* the last position of s whose character is not in cs (0 if none)
LastNotIn(s, cs) ==
    IF \E j \in 1..Len(s) : s[j] \notin cs
    THEN CHOOSE j \in 1..Len(s) : s[j] \notin cs /\ \A k \in (j + 1)..Len(s) : s[k] \in cs
    ELSE 0

\* str.strip()
strip(s) == SubSeq(s, SkipRun(s, 1, Whitespace), LastNotIn(s, Whitespace))

\* p occurs in s at the 1-based position i
MatchAt(s, i, p) ==
    /\ i >= 1
    /\ i + Len(p) - 1 <= Len(s)
    /\ \A j \in 1..Len(p) : s[i + j - 1] = p[j]

\* `p in s` of Python
Contains(s, p) == \E i \in 1..(Len(s) + 1) : MatchAt(s, i, p)

\* str.find, 1-based; 0 when p does not occur
Find(s, p) ==
    IF Contains(s, p)
    THEN CHOOSE i \in 1..(Len(s) + 1) :
             MatchAt(s, i, p) /\ \A j \in 1..(i - 1) : ~MatchAt(s, j, p)
    ELSE 0

\* str.replace(old, new, 1)
replace1(s, old, new) ==
    LET i == Find(s, old)
    IN  IF i = 0 THEN s
        ELSE SubSeq(s, 1, i - 1) \o new \o SubSeq(s, i + Len(old), Len(s))

\* the least element of a non-empty set of integers
Min(S) == CHOOSE x \in S : \A y \in S : x <= y

\* the elements of a set S of positions of 1..n, in increasing order
Positions(n, S) == SelectSeq([i \in 1..n |-> i], LAMBDA i : i \in S)

\* the non-empty pieces of s between the maximal runs of characters of seps:
\* what re.split(r'[seps]+', s) returns, without the empty pieces it gives for
\* a text that starts or ends with a separator (no caller keeps those)
SplitOn(s, seps) ==
    LET order == Positions(Len(s),
                     {i \in 1..Len(s) : s[i] \notin seps /\ (i = 1 \/ s[i - 1] \in seps)})
    IN  [k \in 1..Len(order) |-> SubSeq(s, order[k], FirstIn(s, order[k], seps) - 1)]

\* str.split(): the maximal runs of non-whitespace characters
split(s) == SplitOn(s, Whitespace)

\* ' '.join(list)
RECURSIVE join(_)
join(l) ==
    IF Len(l) = 0 THEN <<>>
    ELSE IF Len(l) = 1 THEN l[1]
    ELSE l[1] \o <<" ">> \o join(Tail(l))

\* str(n) for an integer n >= 0
RECURSIVE str(_)
str(n) ==
    LET d == <<"0", "1", "2", "3", "4", "5", "6", "7", "8", "9">>[(n % 10) + 1]
    IN  IF n < 10 THEN <<d>> ELSE Append(str(n \div 10), d)

\* list[:n] of Python for n >= 0
Take(l, n) == SubSeq(l, 1, IF n < Len(l) THEN n ELSE Len(l))

\* the elements of a list as a set
Range(l) == {l[i] : i \in DOMAIN l}

\* ------------------------------------------------------------------------
\* services/ai_service.py: text helpers of AIFlashcardGenerator
\* ------------------------------------------------------------------------

\* FlashcardPair(question, answer, difficulty="medium", confidence);
\* confidence in tenths (0.3 is 3)
FlashcardPair(q, a, conf) ==
    [question |-> q, answer |-> a, difficulty |-> "medium", confidence |-> conf]

\* re.split(r'[.!?]+', text), each piece stripped, kept when longer than 20
_split_into_sentences(text) ==
    LET pieces == SplitOn(text, {".", "!", "?"})
        kept   == SelectSeq(pieces, LAMBDA p : Len(strip(p)) > 20)
    IN  [i \in 1..Len(kept) |-> strip(kept[i])]

\* \b between s[p] and s[p+1] (p = 0 is the start, p = Len(s) the end)
WordBoundary(s, p) ==
    LET before == p >= 1 /\ p <= Len(s) /\ s[p] \in WordChars
        after  == p + 1 >= 1 /\ p + 1 <= Len(s) /\ s[p + 1] \in WordChars
    IN  before # after

\* [A-Z][a-z]+ at position i: the position of its last character, 0 if no match
CapWordEnd(s, i) ==
    IF /\ i >= 1
       /\ i + 1 <= Len(s)
       /\ s[i] \in UpperSet
       /\ s[i + 1] \in LowerSet
    THEN SkipRun(s, i + 1, LowerSet) - 1
    ELSE 0

\* (?:\s+[A-Z][a-z]+)*\b after a capitalized word ending at e: the greedy
\* repetition first, given back one word at a time while \b fails; 0 if no match
RECURSIVE CapRunEnd(_, _)
CapRunEnd(s, e) ==
    LET j    == SkipRun(s, e + 1, Whitespace)
        e2   == IF j > e + 1 THEN CapWordEnd(s, j) ELSE 0
        more == IF e2 > 0 THEN CapRunEnd(s, e2) ELSE 0
    IN  IF more > 0 THEN more
        ELSE IF WordBoundary(s, e) THEN e
        ELSE 0

\* where \b[A-Z][a-z]+(?:\s+[A-Z][a-z]+)*\b matches from position i: the
\* position of the last character matched, 0 if it does not match at i
CapitalizedEnd(s, i) ==
    LET e0 == IF WordBoundary(s, i - 1) THEN CapWordEnd(s, i) ELSE 0
    IN  IF e0 > 0 THEN CapRunEnd(s, e0) ELSE 0

\* re.findall(r'\b[A-Z][a-z]+(?:\s+[A-Z][a-z]+)*\b', text): the matches from
\* position i on, leftmost first, each search resuming after the last match
RECURSIVE FindCapitalized(_, _)
FindCapitalized(s, i) ==
    LET at == {j \in i..Len(s) : s[j] \in UpperSet /\ CapitalizedEnd(s, j) > 0}
    IN  IF at = {} THEN <<>>
        ELSE LET j == Min(at)
                 e == CapitalizedEnd(s, j)
             IN  <<SubSeq(s, j, e)>> \o FindCapitalized(s, e + 1)

\* the first position >= i of s holding the character c (Len(s)+1 if none)
SkipUntil(s, i, c) == FirstIn(s, i, {c})

\* "([^"]+)" matches at i: a quote, one or more other characters, a quote
QuotedEnd(s, i) ==
    LET j == SkipUntil(s, i + 1, "\"")
    IN  IF s[i] = "\"" /\ j > i + 1 /\ j <= Len(s) THEN j ELSE 0

\* re.findall(r'"([^"]+)"', text)
RECURSIVE FindQuoted(_, _)
FindQuoted(s, i) ==
    LET at == {j \in i..Len(s) : QuotedEnd(s, j) > 0}
    IN  IF at = {} THEN <<>>
        ELSE LET j == Min(at)
                 e == QuotedEnd(s, j)
             IN  <<SubSeq(s, j + 1, e - 1)>> \o FindQuoted(s, e + 1)

\* re.findall(r'$$([^)]+)$$', text): as written the pattern starts and ends
\* with the end-of-text anchor $, which holds at the end of the text and before
\* a final newline; [^)]+ needs one character between the two, so the only
\* match is the final newline of a text that ends with one
FindParentheses(s) ==
    IF Len(s) > 0 /\ s[Len(s)] = "\n" THEN <<(<<"\n">>)>> ELSE <<>>

\* the lists list(set(concepts)) can be: the distinct concepts in any order
\* (the iteration order of a set of str differs from process to process),
\* then filtered to 2 < len(c) < 50
RECURSIVE ListOrders(_)
ListOrders(S) ==
    IF S = {} THEN {<<>>}
    ELSE UNION {{<<x>> \o p : p \in ListOrders(S \ {x})} : x \in S}

_extract_key_concepts(text) ==
    LET concepts == FindCapitalized(text, 1) \o FindQuoted(text, 1) \o FindParentheses(text)
    IN  {SelectSeq(u, LAMBDA c : 2 < Len(c) /\ Len(c) < 50) :
             u \in ListOrders(Range(concepts))}

\* ------------------------------------------------------------------------
\* AIFlashcardGenerator._create_fallback_flashcards
\* ------------------------------------------------------------------------

\* the first sentence containing the concept, case-insensitively
\* ([s for s in sentences if concept.lower() in s.lower()]); <<>> if none
RelevantSentences(sentences, concept) ==
    SelectSeq(sentences, LAMBDA s : Contains(lower(s), lower(concept)))

\* one concept card of the first loop
ConceptCard(sentences, concept) ==
    LET relevant == RelevantSentences(sentences, concept)
        context  == IF Len(relevant) > 0 THEN relevant[1]
                    ELSE <<"T", "h", "i", "s", " ", "r", "e", "l", "a", "t", "e", "s", " ", "t", "o", " ">> \o concept
    IN  FlashcardPair(<<"W", "h", "a", "t", " ", "i", "s", " ">> \o concept \o <<"?">>, context, 3)

\* the cards one sentence adds in the second loop: none unless it has more
\* than 5 words and a word that is alphabetic and longer than 4
BlankCards(sentence) ==
    LET words     == split(sentence)
        important == SelectSeq(words, LAMBDA w : Len(w) > 4 /\ isalpha(w))
    IN  IF Len(words) > 5 /\ Len(important) > 0
        THEN <<FlashcardPair(
                 <<"F", "i", "l", "l", " ", "i", "n", " ", "t", "h", "e", " ", "b", "l", "a", "n", "k", ":", " ">> \o replace1(sentence, important[1], <<"_", "_", "_", "_", "_", "_">>),
                 important[1], 4)>>
        ELSE <<>>

RECURSIVE BlankLoop(_)
BlankLoop(sentences) ==
    IF Len(sentences) = 0 THEN <<>>
    ELSE BlankCards(sentences[1]) \o BlankLoop(Tail(sentences))

\* fault: the padding loop left out
PadLoop_NoPad(cards, n) == cards

\* fault: the padding cards without their number
RECURSIVE PadLoop_SameQuestion(_, _)
PadLoop_SameQuestion(cards, n) ==
    IF Len(cards) < n
    THEN PadLoop_SameQuestion(
             Append(cards,
                    FlashcardPair(<<"R", "e", "v", "i", "e", "w", " ", "q", "u", "e", "s", "t", "i", "o", "n">>,
                                  <<"P", "l", "e", "a", "s", "e", " ", "r", "e", "v", "i", "e", "w", " ", "y", "o", "u", "r", " ", "s", "t", "u", "d", "y", " ", "n", "o", "t", "e", "s", " ", "f", "o", "r", " ", "t", "h", "i", "s", " ", "c", "o", "n", "c", "e", "p", "t", ".">>,
                                  1)),
             n)
    ELSE cards

\* while len(flashcards) < count: append "Review question {len + 1}"
RECURSIVE PadLoop(_, _)
PadLoop(cards, n) ==
    IF Len(cards) < n
    THEN PadLoop(Append(cards,
                        FlashcardPair(<<"R", "e", "v", "i", "e", "w", " ", "q", "u", "e", "s", "t", "i", "o", "n", " ">> \o str(Len(cards) + 1),
                                      <<"P", "l", "e", "a", "s", "e", " ", "r", "e", "v", "i", "e", "w", " ", "y", "o", "u", "r", " ", "s", "t", "u", "d", "y", " ", "n", "o", "t", "e", "s", " ", "f", "o", "r", " ", "t", "h", "i", "s", " ", "c", "o", "n", "c", "e", "p", "t", ".">>,
                                      1)),
                 n)
    ELSE cards

\* the body of _create_fallback_flashcards, for the list key_concepts that
\* _extract_key_concepts returned
_create_fallback_flashcards(text, n, key_concepts) ==
    LET sentences     == _split_into_sentences(text)
        chosen        == Take(key_concepts, n \div 2)
        from_concepts == [i \in 1..Len(chosen) |-> ConceptCard(sentences, chosen[i])]
        remaining     == n - Len(from_concepts)
        from_blanks   == BlankLoop(Take(sentences, remaining))
    IN  Take(PadLoop(from_concepts \o from_blanks, n), n)

\* every list a call of _create_fallback_flashcards(notes, count) can return
FallbackResults(text, n) ==
    {_create_fallback_flashcards(text, n, kc) : kc \in _extract_key_concepts(text)}

\* ------------------------------------------------------------------------
\* AIFlashcardGenerator._parse_generated_flashcards
\* ------------------------------------------------------------------------

\* $ without re.MULTILINE holds at position e (the next character to read):
\* at the end of the text, and before a newline that ends the text
AtEnd(s, e) == e = Len(s) + 1 \/ (e = Len(s) /\ s[e] = "\n")

\* \d+\. at position e
NumberDotAt(s, e) ==
    LET j == SkipRun(s, e, DigitSet)
    IN  e <= Len(s) /\ j > e /\ j <= Len(s) /\ s[j] = "."

\* the lookahead (?=LOOK|$) of a pattern at position e; ls is lower(s), look
\* the lowered label, or <<>> for the \d+\. of the numbered pattern
LookAt(s, ls, e, look) ==
    \/ AtEnd(s, e)
    \/ IF Len(look) = 0 THEN NumberDotAt(s, e) ELSE MatchAt(ls, e, look)

\* LABEL1\s*(.+?)\s*LABEL2\s*(.+?)(?=LOOK|$) with re.DOTALL | re.IGNORECASE
\* (the labels are compared with ls = lower(s)), LABEL1 matching at position i.  The result is [ok, question, answer, end]
\* (end: the next position to read), as the backtracking matcher finds it:
\*   \s* after LABEL1 takes the whole run of whitespace, and gives one
\*       character back only when no LABEL2 follows a non-empty group 1;
\*   (.+?) stops at the first place from which \s*LABEL2 and one more
\*       character follow;
\*   \s* after LABEL2 takes the whole run, and gives one character back
\*       only when nothing would be left for group 2;
\*   (.+?) stops at the first place where the lookahead holds.
MatchLabels(s, ls, i, label1, label2, look) ==
    LET n      == Len(s)
        after  == i + Len(label1)
        a1     == SkipRun(s, after, Whitespace)
        \* LABEL2 stands at p with at least one character after it
        mid(p) == MatchAt(ls, p, label2) /\ p + Len(label2) <= n
        \* the first such place after at least one character of group 1
        next   == IF \E q \in (a1 + 1)..n : mid(q)
                  THEN CHOOSE q \in (a1 + 1)..n : mid(q) /\ \A k \in (a1 + 1)..(q - 1) : ~mid(k)
                  ELSE n + 1
        later  == next <= n
        given  == ~later /\ a1 > after /\ mid(a1)
        ok     == MatchAt(ls, i, label1) /\ (later \/ given)
        p      == IF later THEN next ELSE a1
        g1from == IF later THEN a1 ELSE a1 - 1
        \* group 1 ends before the whitespace that runs up to LABEL2
        g1to   == IF later
                  THEN CHOOSE e \in a1..(p - 1) :
                           s[e] \notin Whitespace /\ \A k \in (e + 1)..(p - 1) : s[k] \in Whitespace
                  ELSE a1 - 1
        b      == p + Len(label2)
        a2     == LET j == SkipRun(s, b, Whitespace) IN IF j <= n THEN j ELSE j - 1
        \* group 2 ends at the first place where the lookahead holds
        g2end  == CHOOSE e \in (a2 + 1)..(n + 1) :
                      /\ LookAt(s, ls, e, look)
                      /\ \A k \in (a2 + 1)..(e - 1) : ~LookAt(s, ls, k, look)
    IN  IF ok
        THEN [ok |-> TRUE, question |-> SubSeq(s, g1from, g1to),
              answer |-> SubSeq(s, a2, g2end - 1), end |-> g2end]
        ELSE [ok |-> FALSE, question |-> <<>>, answer |-> <<>>, end |-> 0]

\* the three patterns of the parser, each matching at position i
Pattern1(s, ls, i) == MatchLabels(s, ls, i, <<"q", ":">>, <<"a", ":">>, <<"q", ":">>)
Pattern2(s, ls, i) == MatchLabels(s, ls, i, <<"q", "u", "e", "s", "t", "i", "o", "n", ":">>, <<"a", "n", "s", "w", "e", "r", ":">>, <<"q", "u", "e", "s", "t", "i", "o", "n", ":">>)
\* (\d+)\.\s*Q: ... : the digits, the dot and the whitespace, then as pattern 1
\* with the lookahead \d+\.
Pattern3(s, ls, i) ==
    LET j == SkipRun(s, i, DigitSet)
        q == SkipRun(s, j + 1, Whitespace)
    IN  IF i <= Len(s) /\ j > i /\ j <= Len(s) /\ s[j] = "."
        THEN MatchLabels(s, ls, q, <<"q", ":">>, <<"a", ":">>, <<>>)
        ELSE [ok |-> FALSE, question |-> <<>>, answer |-> <<>>, end |-> 0]

PatternAt(s, ls, i, pattern) ==
    CASE pattern = 1 -> Pattern1(s, ls, i)
      [] pattern = 2 -> Pattern2(s, ls, i)
      [] pattern = 3 -> Pattern3(s, ls, i)

\* the character a match of the pattern starts with: q, or a digit
StartsPattern(c, pattern) == IF pattern = 3 THEN c \in DigitSet ELSE c = "q"

\* re.findall(pattern, text): the matches from position i on, leftmost
\* first, each search resuming where the last match ended
RECURSIVE FindPairs(_, _, _, _)
FindPairs(s, ls, i, pattern) ==
    LET j == IF \E q \in i..Len(s) : StartsPattern(ls[q], pattern)
             THEN CHOOSE q \in i..Len(s) :
                      /\ StartsPattern(ls[q], pattern)
                      /\ \A k \in i..(q - 1) : ~StartsPattern(ls[k], pattern)
             ELSE Len(s) + 1
        m == PatternAt(s, ls, j, pattern)
    IN  IF j > Len(s) THEN <<>>
        ELSE IF m.ok THEN <<m>> \o FindPairs(s, ls, m.end, pattern)
        ELSE FindPairs(s, ls, j + 1, pattern)

\* re.findall(pattern, text, re.DOTALL | re.IGNORECASE)
findall(pattern, text) == FindPairs(text, lower(text), 1, pattern)

\* one match becomes a card when both stripped groups are longer than 5
ParsedCards(matches) ==
    LET kept == SelectSeq(matches, LAMBDA m : Len(strip(m.question)) > 5 /\ Len(strip(m.answer)) > 5)
    IN  [k \in 1..Len(kept) |-> FlashcardPair(strip(kept[k].question), strip(kept[k].answer), 7)]

_parse_generated_flashcards(text) ==
    ParsedCards(findall(1, text)) \o ParsedCards(findall(2, text))
        \o ParsedCards(findall(3, text))

\* ------------------------------------------------------------------------
\* The external text-generation endpoint and the three strategies
\* ------------------------------------------------------------------------

\* what requests.post(...) can do: raise (no connection, timeout), or return
\* a response with a status and a body; the body is no JSON, a JSON object
\* (the endpoint's error report) or a JSON list of generated texts
Raises == [event |-> "raise", status |-> 0, body |-> "none", texts |-> <<>>]
Response(status, body, texts) ==
    [event |-> "response", status |-> status, body |-> body, texts |-> texts]

\* response.raise_for_status(): an HTTPError for a 4xx or 5xx status
raise_for_status(resp) == resp.status >= 400 /\ resp.status < 600

\* response.json() followed by result[0]['generated_text'] if result else "":
\* raises when the body is no JSON or is an object; "" for the empty list
GeneratedTextRaises(resp) == resp.body \in {"invalid", "object"}
GeneratedText(resp) ==
    IF Len(resp.texts) > 0 THEN resp.texts[1] ELSE <<>>

\* _generate_with_text_generation for the response its one request gets:
\* raised tells whether the call raises, flashcards is what it returns
_generate_with_text_generation(resp) ==
    IF \/ resp.event = "raise"
       \/ raise_for_status(resp)
       \/ GeneratedTextRaises(resp)
    THEN [raised |-> TRUE, flashcards |-> <<>>]
    ELSE [raised |-> FALSE, flashcards |-> _parse_generated_flashcards(GeneratedText(resp))]

\* the body of the loop of _generate_with_question_generation for one
\* sentence and the response its request gets: the cards it appends.  An
\* exception of the request or of the decoding is caught inside the loop.
QuestionCards(sentence, resp) ==
    IF \/ resp.event = "raise"
       \/ resp.status # 200
       \/ GeneratedTextRaises(resp)
    THEN <<>>
    ELSE LET question == GeneratedText(resp)
         IN  IF Len(question) > 0 /\ Len(question) > 10
             THEN <<FlashcardPair(strip(question), strip(sentence), 8)>>
             ELSE <<>>

\* the sentences _generate_with_question_generation sends: sentences[:count]
\* without those whose stripped length is below 20
QuestionSentences(text, n) ==
    SelectSeq(Take(_split_into_sentences(text), n), LAMBDA s : ~(Len(strip(s)) < 20))

\* the five question templates of the keyword strategy
QuestionTemplate(k, concept) ==
    CASE k = 0 -> <<"W", "h", "a", "t", " ", "i", "s", " ">> \o concept \o <<"?">>
      [] k = 1 -> <<"D", "e", "f", "i", "n", "e", " ">> \o concept \o <<".">>
      [] k = 2 -> <<"E", "x", "p", "l", "a", "i", "n", " ", "t", "h", "e", " ", "c", "o", "n", "c", "e", "p", "t", " ", "o", "f", " ">> \o concept \o <<".">>
      [] k = 3 -> <<"W", "h", "a", "t", " ", "d", "o", " ", "y", "o", "u", " ", "k", "n", "o", "w", " ", "a", "b", "o", "u", "t", " ">> \o concept \o <<"?">>
      [] k = 4 -> <<"D", "e", "s", "c", "r", "i", "b", "e", " ">> \o concept \o <<".">>

\* fault: the template chosen by the number of concepts left to examine
RECURSIVE KeywordLoop_ByConcept(_, _, _)
KeywordLoop_ByConcept(concepts, sentences, cards) ==
    IF Len(concepts) = 0 THEN cards
    ELSE LET relevant == RelevantSentences(sentences, concepts[1])
         IN  KeywordLoop_ByConcept(Tail(concepts), sentences,
                 IF Len(relevant) > 0
                 THEN Append(cards,
                             FlashcardPair(QuestionTemplate(Len(concepts) % 5, concepts[1]),
                                           strip(relevant[1]), 6))
                 ELSE cards)

\* the loop of _generate_with_keyword_extraction over the concepts left
RECURSIVE KeywordLoop(_, _, _)
KeywordLoop(concepts, sentences, cards) ==
    IF Len(concepts) = 0 THEN cards
    ELSE LET relevant == RelevantSentences(sentences, concepts[1])
         IN  KeywordLoop(Tail(concepts), sentences,
                 IF Len(relevant) > 0
                 THEN Append(cards,
                             FlashcardPair(QuestionTemplate(Len(cards) % 5, concepts[1]),
                                           strip(relevant[1]), 6))
                 ELSE cards)

_generate_with_keyword_extraction(text, n, key_concepts) ==
    KeywordLoop(Take(key_concepts, n), _split_into_sentences(text), <<>>)

\* every list a call of _generate_with_keyword_extraction(notes, count) can
\* return: one for each order of the concept list
KeywordResults(text, n) ==
    {_generate_with_keyword_extraction(text, n, kc) : kc \in _extract_key_concepts(text)}

\* ------------------------------------------------------------------------
\* assess_difficulty, generate_flashcards_with_ai, validate_flashcard_quality
\* ------------------------------------------------------------------------
ComplexWords == { <<"a", "n", "a", "l", "y", "z", "e">>, <<"e", "v", "a", "l", "u", "a", "t", "e">>, <<"s", "y", "n", "t", "h", "e", "s", "i", "z", "e">>, <<"c", "o", "m", "p", "a", "r", "e">>, <<"c", "o", "n", "t", "r", "a", "s", "t">> }

\* fault: the medium test placed before the hard test
assess_difficulty_MediumFirst(question, answer) ==
    LET question_length   == Len(split(question))
        answer_length     == Len(split(answer))
        has_complex_words == \E word \in ComplexWords : Contains(lower(question), word)
    IN  IF question_length > 10 \/ answer_length > 10 THEN "medium"
        ELSE IF has_complex_words \/ answer_length > 20 THEN "hard"
        ELSE "easy"

assess_difficulty(question, answer) ==
    LET question_length   == Len(split(question))
        answer_length     == Len(split(answer))
        has_complex_words == \E word \in ComplexWords : Contains(lower(question), word)
    IN  IF has_complex_words \/ answer_length > 20 THEN "hard"
        ELSE IF question_length > 10 \/ answer_length > 10 THEN "medium"
        ELSE "easy"

\* the dictionary generate_flashcards_with_ai makes of one pair
FlashcardDict(pair) ==
    [question |-> pair.question, answer |-> pair.answer,
     difficulty_level |-> assess_difficulty(pair.question, pair.answer),
     confidence |-> pair.confidence]

\* the conversion loop of generate_flashcards_with_ai
ToDictionaries(pairs) ==
    [k \in 1..Len(pairs) |-> FlashcardDict(pairs[k])]

\* card.get(key, '')
get(card, key) == IF key \in DOMAIN card THEN card[key] ELSE <<>>

\* fault: the answer threshold one too low
QualityOk_ShortAnswer(question, answer) == ~(Len(question) < 5 \/ Len(answer) < 2)

\* the quality check of one card: both stripped texts long enough
QualityOk(question, answer) == ~(Len(question) < 5 \/ Len(answer) < 3)

\* the duplicate check: the stripped question against the questions of the
\* cards kept so far, as stored
IsDuplicate(validated, question) ==
    \E k \in 1..Len(validated) : lower(validated[k].question) = lower(question)

\* fault: the card stored with its question stripped
KeptCard_Stripped(card, question, answer) == [card EXCEPT !.question = question]

\* what the loop appends for a card that passes: the card itself
KeptCard(card, question, answer) == card

RECURSIVE ValidateLoop(_, _)
ValidateLoop(cards, validated) ==
    IF Len(cards) = 0 THEN validated
    ELSE LET card     == cards[1]
             question == strip(get(card, "question"))
             answer   == strip(get(card, "answer"))
         IN  ValidateLoop(Tail(cards),
                 IF QualityOk(question, answer) /\ ~IsDuplicate(validated, question)
                 THEN Append(validated, KeptCard(card, question, answer))
                 ELSE validated)

validate_flashcard_quality(cards) == ValidateLoop(cards, <<>>)

\* ------------------------------------------------------------------------
\* utils/text_processing.py: TextProcessor and preprocess_notes_for_ai
\* ------------------------------------------------------------------------

\* nltk.sent_tokenize as the source uses it: a sentence ends with a '.', '!'
\* or '?' that is followed by whitespace or ends the text; the sentences keep
\* their punctuation and lose the whitespace between them
sent_tokenize(s) ==
    LET n      == Len(s)
        breaks == {i \in 1..n : s[i] \in {".", "!", "?"} /\ (i = n \/ s[i + 1] \in Whitespace)}
        \* a sentence starts at the first character of the text that is not
        \* whitespace, and at the first one after each break
        starts == {SkipRun(s, b + 1, Whitespace) : b \in breaks \cup {0}}
        order  == Positions(n, starts)
        stop(i) == IF \E b \in breaks : b >= i
                   THEN Min({b \in breaks : b >= i})
                   ELSE LastNotIn(s, Whitespace)
    IN  [k \in 1..Len(order) |-> SubSeq(s, order[k], stop(order[k]))]

\* len(nltk.word_tokenize(s)): the words, and each punctuation mark apart
WordTokenCount(s) ==
    Cardinality({i \in 1..Len(s) : s[i] \in WordChars /\ (i = 1 \/ s[i - 1] \notin WordChars)})
    + Cardinality({i \in 1..Len(s) : s[i] \notin WordChars \cup Whitespace})

\* academic_keywords of TextProcessor.__init__, category by category
AcademicKeywords ==
    << << <<"d", "e", "f", "i", "n", "e">>, <<"d", "e", "f", "i", "n", "i", "t", "i", "o", "n">>, <<"m", "e", "a", "n", "i", "n", "g">>, <<"r", "e", "f", "e", "r", "s", " ", "t", "o">>, <<"i", "s", " ", "d", "e", "f", "i", "n", "e", "d", " ", "a", "s">> >>,
       << <<"p", "r", "o", "c", "e", "s", "s">>, <<"p", "r", "o", "c", "e", "d", "u", "r", "e">>, <<"m", "e", "t", "h", "o", "d">>, <<"s", "t", "e", "p", "s">>, <<"s", "t", "a", "g", "e", "s">> >>,
       << <<"b", "e", "c", "a", "u", "s", "e">>, <<"t", "h", "e", "r", "e", "f", "o", "r", "e">>, <<"a", "s", " ", "a", " ", "r", "e", "s", "u", "l", "t">>, <<"l", "e", "a", "d", "s", " ", "t", "o">>, <<"c", "a", "u", "s", "e", "s">> >>,
       << <<"c", "o", "m", "p", "a", "r", "e", "d", " ", "t", "o">>, <<"u", "n", "l", "i", "k", "e">>, <<"s", "i", "m", "i", "l", "a", "r", " ", "t", "o">>, <<"d", "i", "f", "f", "e", "r", "e", "n", "t", " ", "f", "r", "o", "m">> >>,
       << <<"i", "m", "p", "o", "r", "t", "a", "n", "t">>, <<"s", "i", "g", "n", "i", "f", "i", "c", "a", "n", "t">>, <<"c", "r", "u", "c", "i", "a", "l">>, <<"e", "s", "s", "e", "n", "t", "i", "a", "l">>, <<"k", "e", "y">> >> >>

\* the two loops over the categories and their keywords: 0.5 for each keyword
\* found in the lowered sentence
KeywordScore(sentence_lower) ==
    5 * Cardinality({ck \in {<<c, k>> : c \in DOMAIN AcademicKeywords, k \in 1..5} :
                        /\ ck[2] \in DOMAIN AcademicKeywords[ck[1]]
                        /\ Contains(sentence_lower, AcademicKeywords[ck[1]][ck[2]])})

\* len(re.findall(r'\b[A-Z][a-z]+\b', sentence))
CapitalizedWordCount(s) ==
    Cardinality({i \in 1..Len(s) :
        /\ WordBoundary(s, i - 1)
        /\ CapWordEnd(s, i) > 0
        /\ WordBoundary(s, CapWordEnd(s, i))})

\* len(re.findall(r'\b\d+\b', sentence))
NumberCount(s) ==
    Cardinality({i \in 1..Len(s) :
        /\ s[i] \in DigitSet
        /\ WordBoundary(s, i - 1)
        /\ WordBoundary(s, SkipRun(s, i, DigitSet) - 1)})

\* TextProcessor._score_sentence, in tenths
_score_sentence(sentence, full_text) ==
    LET words  == WordTokenCount(lower(sentence))
        length == IF 5 <= words /\ words <= 25 THEN 10
                  ELSE IF words < 5 THEN -5 ELSE 0
        ending == LET t == strip(sentence)
                  IN  IF Len(t) > 0 /\ t[Len(t)] = "?" THEN 5 ELSE 0
    IN  length + KeywordScore(lower(sentence)) + 2 * CapitalizedWordCount(sentence)
        + 3 * NumberCount(sentence) + ending

\* TextProcessor.extract_key_sentences: the sentences by decreasing score, the
\* order of the text kept among equal scores (list.sort is stable), the first
\* max_sentences of them
extract_key_sentences(text, max_sentences) ==
    LET sentences == sent_tokenize(text)
        score     == [k \in DOMAIN sentences |-> _score_sentence(sentences[k], text)]
        rank(k)   == Cardinality({j \in DOMAIN sentences :
                         score[j] > score[k] \/ (score[j] = score[k] /\ j < k)})
        sorted    == [r \in 1..Len(sentences) |->
                         sentences[CHOOSE k \in DOMAIN sentences : rank(k) = r - 1]]
    IN  Take(sorted, max_sentences)

\* re.sub(r'\s+', ' ', s)
CollapseWhitespace(s) ==
    LET order == Positions(Len(s),
                     {i \in 1..Len(s) : s[i] \notin Whitespace \/ i = 1 \/ s[i - 1] \notin Whitespace})
    IN  [k \in 1..Len(order) |-> IF s[order[k]] \in Whitespace THEN " " ELSE s[order[k]]]

\* preprocess_notes_for_ai, with the tokenizer data present
preprocess_notes_for_ai(text) ==
    strip(CollapseWhitespace(join(extract_key_sentences(text, 15))))

\* ------------------------------------------------------------------------
\* Inputs
\* ------------------------------------------------------------------------
MaxFragments == 2
MaxCount == 5
MaxCards == 3
MaxQuestionWords == 11
MaxAnswerWords == 25

\* the pieces study notes are made of: a sentence with a concept and a word
\* to blank; one too short to be kept; one without concept or word to blank;
\* one with a quoted and a parenthesized term; one with two capitalized runs
\* that ends the text with a newline
Fragments ==
    { <<"C", "h", "l", "o", "r", "o", "p", "h", "y", "l", "l", " ", "i", "s", " ", "t", "h", "e", " ", "g", "r", "e", "e", "n", " ", "p", "i", "g", "m", "e", "n", "t", " ", "i", "n", " ", "l", "e", "a", "v", "e", "s", ".", " ">>,
      <<"C", "a", "t", "s", " ", "a", "r", "e", " ", "n", "i", "c", "e", ".", " ">>,
      <<"t", "h", "e", " ", "c", "e", "l", "l", " ", "h", "a", "s", " ", "a", " ", "w", "a", "l", "l", " ", "a", "n", "d", " ", "a", " ", "c", "o", "r", "e", " ", "i", "n", " ", "i", "t", "!", " ">>,
      <<"T", "h", "e", " ", "\"", "K", "r", "e", "b", "s", " ", "C", "y", "c", "l", "e", "\"", " ", "o", "c", "c", "u", "r", "s", " ", "i", "n", " ", "m", "i", "t", "o", "c", "h", "o", "n", "d", "r", "i", "a", " ", "(", "t", "h", "e", " ", "p", "o", "w", "e", "r", "h", "o", "u", "s", "e", ")", "?", " ">>,
      <<"L", "i", "g", "h", "t", " ", "E", "n", "e", "r", "g", "y", " ", "a", "n", "d", " ", "W", "a", "t", "e", "r", " ", "f", "e", "e", "d", " ", "g", "r", "e", "e", "n", " ", "p", "l", "a", "n", "t", "s", " ", "d", "a", "i", "l", "y", ".", "\n">> }

RECURSIVE Texts(_)
Texts(n) ==
    IF n = 0 THEN {<<>>}
    ELSE Texts(n - 1) \cup {t \o f : t \in Texts(n - 1), f \in Fragments}

NotesSet == Texts(MaxFragments)

\* the most times a sentence is repeated in notes
MaxRepeats == 5

\* a text made of k copies of the fragment f
RECURSIVE Repeat(_, _)
Repeat(f, k) == IF k = 0 THEN <<>> ELSE f \o Repeat(f, k - 1)

\* notes that say one thing several times: a sentence with a concept, one
\* without, and one whose two concepts differ only in case
RepeatedNotes ==
    {Repeat(f, k) : f \in { <<"C", "h", "l", "o", "r", "o", "p", "h", "y", "l", "l", " ", "i", "s", " ", "t", "h", "e", " ", "g", "r", "e", "e", "n", " ", "p", "i", "g", "m", "e", "n", "t", " ", "i", "n", " ", "l", "e", "a", "v", "e", "s", ".", " ">>,
                            <<"p", "l", "a", "n", "t", "s", " ", "m", "a", "k", "e", " ", "t", "h", "e", "i", "r", " ", "f", "o", "o", "d", " ", "f", "r", "o", "m", " ", "l", "i", "g", "h", "t", ".", " ">>,
                            <<"M", "a", "n", "y", " ", "C", "a", "t", "s", " ", "a", "n", "d", " ", "\"", "c", "a", "t", "s", "\"", " ", "a", "r", "e", " ", "n", "i", "c", "e", " ", "a", "n", "i", "m", "a", "l", "s", " ", "i", "n", "d", "e", "e", "d", ".", " ">> },
                    k \in 3..MaxRepeats}

\* the notes of the requests that reach the generator without a credential
DeckNotes == NotesSet \cup RepeatedNotes
Counts == 1..MaxCount

\* HUGGING_FACE_API_KEY in the environment: unset (os.environ.get gives
\* None, written "None" here), set to the empty string, or set to a key
ApiKeys == {"None", "", "hf_key"}

\* texts the text-generation model may return: one pair; two numbered pairs;
\* the same pair five times; two pairs in turn, five in all; one pair with
\* the long labels; six different pairs; no pair at all
GeneratedTexts ==
    { <<"Q", ":", " ", "W", "h", "a", "t", " ", "i", "s", " ", "c", "h", "l", "o", "r", "o", "p", "h", "y", "l", "l", "?", " ", "A", ":", " ", "T", "h", "e", " ", "g", "r", "e", "e", "n", " ", "p", "i", "g", "m", "e", "n", "t", ".">>,
      <<"1", ".", " ", "Q", ":", " ", "W", "h", "a", "t", " ", "i", "s", " ", "l", "i", "g", "h", "t", "?", " ", "A", ":", " ", "E", "n", "e", "r", "g", "y", " ", "w", "e", " ", "s", "e", "e", ".", " ", "2", ".", " ", "Q", ":", " ", "W", "h", "a", "t", " ", "i", "s", " ", "w", "a", "t", "e", "r", "?", " ", "A", ":", " ", "A", " ", "l", "i", "q", "u", "i", "d", ".", "\n">>,
      <<"Q", ":", " ", "W", "h", "a", "t", " ", "i", "s", " ", "t", "h", "i", "s", "?", " ", "A", ":", " ", "N", "o", "t", "h", "i", "n", "g", ".", " ", "Q", ":", " ", "W", "h", "a", "t", " ", "i", "s", " ", "t", "h", "i", "s", "?", " ", "A", ":", " ", "N", "o", "t", "h", "i", "n", "g", ".", " ", "Q", ":", " ", "W", "h", "a", "t", " ", "i", "s", " ", "t", "h", "i", "s", "?", " ", "A", ":", " ", "N", "o", "t", "h", "i", "n", "g", ".", " ", "Q", ":", " ", "W", "h", "a", "t", " ", "i", "s", " ", "t", "h", "i", "s", "?", " ", "A", ":", " ", "N", "o", "t", "h", "i", "n", "g", ".", " ", "Q", ":", " ", "W", "h", "a", "t", " ", "i", "s", " ", "t", "h", "i", "s", "?", " ", "A", ":", " ", "N", "o", "t", "h", "i", "n", "g", ".">>,
      <<"Q", ":", " ", "W", "h", "a", "t", " ", "i", "s", " ", "t", "h", "i", "s", "?", " ", "A", ":", " ", "N", "o", "t", "h", "i", "n", "g", ".", " ", "Q", ":", " ", "W", "h", "a", "t", " ", "i", "s", " ", "t", "h", "a", "t", "?", " ", "A", ":", " ", "A", "n", "y", "t", "h", "i", "n", "g", ".", " ", "Q", ":", " ", "W", "h", "a", "t", " ", "i", "s", " ", "t", "h", "i", "s", "?", " ", "A", ":", " ", "N", "o", "t", "h", "i", "n", "g", ".", " ", "Q", ":", " ", "W", "h", "a", "t", " ", "i", "s", " ", "t", "h", "a", "t", "?", " ", "A", ":", " ", "A", "n", "y", "t", "h", "i", "n", "g", ".", " ", "Q", ":", " ", "W", "h", "a", "t", " ", "i", "s", " ", "t", "h", "i", "s", "?", " ", "A", ":", " ", "N", "o", "t", "h", "i", "n", "g", ".">>,
      <<"Q", "u", "e", "s", "t", "i", "o", "n", ":", " ", "w", "h", "y", " ", "i", "s", " ", "i", "t", " ", "s", "o", "?", " ", "A", "n", "s", "w", "e", "r", ":", " ", "b", "e", "c", "a", "u", "s", "e", " ", "i", "t", " ", "i", "s", ".">>,
      <<"Q", ":", " ", "W", "h", "a", "t", " ", "i", "s", " ", "o", "n", "e", "?", " ", "A", ":", " ", "N", "u", "m", "b", "e", "r", " ", "1", ".", " ", "Q", ":", " ", "W", "h", "a", "t", " ", "i", "s", " ", "t", "w", "o", "?", " ", "A", ":", " ", "N", "u", "m", "b", "e", "r", " ", "2", ".", " ", "Q", ":", " ", "W", "h", "a", "t", " ", "i", "s", " ", "t", "h", "r", "e", "e", "?", " ", "A", ":", " ", "N", "u", "m", "b", "e", "r", " ", "3", ".", " ", "Q", ":", " ", "W", "h", "a", "t", " ", "i", "s", " ", "f", "o", "u", "r", "?", " ", "A", ":", " ", "N", "u", "m", "b", "e", "r", " ", "4", ".", " ", "Q", ":", " ", "W", "h", "a", "t", " ", "i", "s", " ", "f", "i", "v", "e", "?", " ", "A", ":", " ", "N", "u", "m", "b", "e", "r", " ", "5", ".", " ", "Q", ":", " ", "W", "h", "a", "t", " ", "i", "s", " ", "s", "i", "x", "?", " ", "A", ":", " ", "N", "u", "m", "b", "e", "r", " ", "6", ".">>,
      <<"I", " ", "c", "a", "n", "n", "o", "t", " ", "h", "e", "l", "p", " ", "w", "i", "t", "h", " ", "t", "h", "a", "t", ".">> }

\* what the request of the free-text strategy can get
TextGenerationResponses ==
    { Raises, Response(503, "object", <<>>), Response(200, "invalid", <<>>),
      Response(200, "object", <<>>), Response(200, "list", <<>>) }
    \cup { Response(200, "list", <<t>>) : t \in GeneratedTexts }

\* what the free-text strategy can do: raise, or return the cards parsed
TextGenerationResults ==
    {_generate_with_text_generation(r) : r \in TextGenerationResponses}

\* what one request of the per-sentence strategy can get: a question, a text
\* of 10 characters or fewer, a short text padded with blanks
QuestionGenerationResponses ==
    { Raises, Response(503, "object", <<>>), Response(200, "invalid", <<>>),
      Response(200, "list", <<>>),
      Response(200, "list", << <<"W", "h", "a", "t", " ", "i", "s", " ", "d", "e", "s", "c", "r", "i", "b", "e", "d", " ", "h", "e", "r", "e", "?">> >>),
      Response(200, "list", << <<"W", "h", "y", " ", "i", "s", " ", "i", "t", "?">> >>),
      Response(200, "list", << <<" ", " ", " ", "W", "h", "y", "?", " ", " ", " ", " ">> >>) }

\* cards for validate_flashcard_quality: questions that differ in case and in
\* surrounding whitespace, one too short, one too short once stripped;
\* answers long enough, and one too short once stripped
PoolQuestions ==
    { <<"W", "h", "a", "t", "?">>, <<" ", "W", "h", "a", "t", "?">>, <<"w", "h", "a", "t", "?">>, <<" ", "w", "h", "a", "t", "?">>, <<"W", "h", "y", "?">>, <<"W", "h", "y", "?", " ">> }
PoolAnswers == { <<"Y", "e", "s">>, <<"Y", "e", "s", "!">>, <<" ", "N", "o">> }
CardPool ==
    { [question |-> q, answer |-> a, difficulty_level |-> "easy", confidence |-> 7] :
          q \in PoolQuestions, a \in PoolAnswers }
    \cup { [answer |-> <<"Y", "e", "s">>, difficulty_level |-> "hard", confidence |-> 1] }

RECURSIVE CardLists(_)
CardLists(n) ==
    IF n = 0 THEN {<<>>}
    ELSE CardLists(n - 1) \cup {Append(l, c) : l \in CardLists(n - 1), c \in CardPool}

\* questions and answers for assess_difficulty: n plain words, the question
\* closed by one more word, which may hold a complexity indicator
RECURSIVE Plain(_)
Plain(n) == IF n = 0 THEN <<>> ELSE <<"w", "o", "r", "d", " ">> \o Plain(n - 1)

ComplexEndings ==
    { <<"a", "n", "a", "l", "y", "z", "e">>, <<"E", "v", "a", "l", "u", "a", "t", "e">>, <<"s", "y", "n", "t", "h", "e", "s", "i", "z", "e", "?">>, <<"C", "O", "M", "P", "A", "R", "E">>, <<"c", "o", "n", "t", "r", "a", "s", "t", "i", "n", "g">> }
PlainEndings == { <<"a", "n", "a", "l", "y", "s", "i", "s">>, <<"c", "o", "m", "p", "a", "r", "i", "s", "o", "n">>, <<"i", "t", "?">> }

DifficultyQuestion(n, ending) == Plain(n) \o ending
DifficultyAnswer(m) == Plain(m)

\* ------------------------------------------------------------------------
\* State
\* ------------------------------------------------------------------------
VARIABLES
    api_key,          \* HUGGING_FACE_API_KEY as AIFlashcardGenerator reads it
    handler,          \* the outermost call that is running
    pc,               \* the step it is at
    request,          \* the create_deck request: session user, data, notes
    connection,       \* the database connection of the request
    notes,            \* the notes argument of the generator
    count,            \* the count argument of the generator
    sentence_idx,     \* per-sentence strategy: the next sentence to send
    partial,          \* per-sentence strategy: the cards made so far
    calls,            \* the strategies invoked so far, in order, with outcome
    posts,            \* the number of outbound requests made
    exception,        \* the exception that is propagating ("" if none)
    flashcard_pairs,  \* what generate_flashcards returned
    generated,        \* what generate_flashcards_with_ai returned
    flashcards,       \* what validate_flashcard_quality returned
    db,               \* the committed decks: the number of cards of each
    response,         \* the response of create_deck
    returned          \* what a helper that was called on its own returned

vars == <<api_key, handler, pc, request, connection, notes, count, sentence_idx,
          partial, calls, posts, exception, flashcard_pairs, generated,
          flashcards, db, response, returned>>

NoRequest == [user_id |-> 0, data |-> "none", notes |-> <<>>]
NoResponse == [status |-> 0, error |-> ""]

\* the state before any call
Blank ==
    /\ request = NoRequest
    /\ connection = "none"
    /\ notes = <<>>
    /\ count = 0
    /\ sentence_idx = 1
    /\ partial = <<>>
    /\ calls = <<>>
    /\ posts = 0
    /\ exception = ""
    /\ flashcard_pairs = <<>>
    /\ generated = <<>>
    /\ flashcards = <<>>
    /\ db = <<>>
    /\ response = NoResponse
    /\ returned = <<>>

Init ==
    /\ api_key \in ApiKeys
    /\ handler = "none"
    /\ pc = "idle"
    /\ Blank

\* ------------------------------------------------------------------------
\* AIFlashcardGenerator.generate_flashcards
\* ------------------------------------------------------------------------

\* the number of cards create_deck asks for, and the least it accepts
DeckCardCount == 5
MinFlashcards == 3

\* fault: only the unset variable counts as no credential
NoCredential_UnsetOnly(key) == key = "None"

\* `not self.api_key`
NoCredential(key) == key = "None" \/ key = ""

\* the strategies list, in order
Strategies == <<"text_generation", "question_generation", "keyword_extraction">>

\* fault: no fallback generator after the loop, the empty result is used
NextStep_NoFallback(strategy) ==
    LET i == CHOOSE k \in DOMAIN Strategies : Strategies[k] = strategy
    IN  IF i < Len(Strategies) THEN Strategies[i + 1] ELSE "classify"

\* where the loop goes after a strategy that did not return: the next
\* strategy, and the fallback generator after the last
NextStep(strategy) ==
    LET i == CHOOSE k \in DOMAIN Strategies : Strategies[k] = strategy
    IN  IF i < Len(Strategies) THEN Strategies[i + 1] ELSE "fallback"

\* fault: `>` for `>=` in the test of line 57
StrategyVerdict_Strict(result, n) ==
    IF result.raised THEN "continue"
    ELSE IF Len(result.flashcards) > n THEN "return"
    ELSE "continue"

\* fault: the loop without its try/except
StrategyVerdict_NoExcept(result, n) ==
    IF result.raised THEN "raise"
    ELSE IF Len(result.flashcards) >= n THEN "return"
    ELSE "continue"

\* the body of the loop for the result of one strategy: an exception is
\* caught and the loop continues; a list of count cards or more is returned
StrategyVerdict(result, n) ==
    IF result.raised THEN "continue"
    ELSE IF Len(result.flashcards) >= n THEN "return"
    ELSE "continue"

\* fault: the slice of line 58 left out
Truncate_All(cards, n) == cards

\* flashcards[:count]
Truncate(cards, n) == Take(cards, n)

\* the record kept of a call: the strategy, whether it raised, whether it
\* produced count cards or more, and its output in that case
LogEntry(strategy, result, n) ==
    LET enough == ~result.raised /\ Len(result.flashcards) >= n
    IN  [strategy |-> strategy, raised |-> result.raised, enough |-> enough,
         output |-> IF enough THEN result.flashcards ELSE <<>>]

\* where a call that ends generate_flashcards_with_ai goes on
AfterGenerate == IF handler = "_create_fallback_flashcards" THEN "done" ELSE "classify"
AfterRaise == IF handler = "create_deck" THEN "finish" ELSE "done"

\* lines 54-61 for the result of the strategy that just ran
AfterStrategy(strategy, result) ==
    LET verdict == StrategyVerdict(result, count)
    IN  /\ calls' = Append(calls, LogEntry(strategy, result, count))
        /\ CASE verdict = "return" ->
                  /\ flashcard_pairs' = Truncate(result.flashcards, count)
                  /\ pc' = AfterGenerate
                  /\ UNCHANGED exception
             [] verdict = "continue" ->
                  /\ pc' = NextStep(strategy)
                  /\ UNCHANGED <<flashcard_pairs, exception>>
             [] OTHER ->
                  /\ exception' = "StrategyError"
                  /\ pc' = AfterRaise
                  /\ UNCHANGED flashcard_pairs

\* ------------------------------------------------------------------------
\* What the steps of the pipeline compute, tabulated once for the notes,
\* counts and responses above
\* ------------------------------------------------------------------------

\* every list the loop of _generate_with_question_generation can have made
\* after these sentences, one response for each
RECURSIVE QuestionLists(_)
QuestionLists(sentences) ==
    IF Len(sentences) = 0 THEN {<<>>}
    ELSE {made \o QuestionCards(sentences[Len(sentences)], r) :
              made \in QuestionLists(SubSeq(sentences, 1, Len(sentences) - 1)),
              r \in QuestionGenerationResponses}

\* every list a call of _generate_with_question_generation(notes, count) can
\* return
QuestionGenerationResults(text, n) == QuestionLists(QuestionSentences(text, n))

\* the function f with its values computed (TLC leaves [x \in S |-> e]
\* unevaluated until it is applied)
Explicit(f) == f @@ <<>>

\* the notes create_deck hands to the generator
PreprocessedNotes == Explicit([t \in DeckNotes |-> preprocess_notes_for_ai(t)])

\* the notes the generator can be called with: as given, or preprocessed
PipelineNotes == NotesSet \cup {PreprocessedNotes[t] : t \in NotesSet}

PipelineInputs == PipelineNotes \X (Counts \cup {DeckCardCount})

\* what create_deck calls the generator with
DeckInputs == {<<PreprocessedNotes[t], DeckCardCount>> : t \in DeckNotes}

QuestionSentencesTable == Explicit([i \in PipelineInputs |-> QuestionSentences(i[1], i[2])])
KeywordTable == Explicit([i \in PipelineInputs |-> KeywordResults(i[1], i[2])])
FallbackTable == Explicit([i \in PipelineInputs |-> FallbackResults(i[1], i[2])])
FallbackDeckTable == Explicit([i \in DeckInputs |-> FallbackResults(i[1], i[2])])

\* every list generate_flashcards can return for these inputs
PipelineLists ==
    UNION { {Truncate(r.flashcards, i[2]) : r \in TextGenerationResults}
            \cup {Truncate(l, i[2]) : l \in QuestionGenerationResults(i[1], i[2])}
            \cup {Truncate(l, i[2]) : l \in KeywordTable[i]}
            \cup FallbackTable[i] : i \in PipelineInputs }

ToDictionariesTable == Explicit([l \in PipelineLists |-> ToDictionaries(l)])
ValidateTable == Explicit([l \in Range(ToDictionariesTable) |-> validate_flashcard_quality(l)])

\* table[key] where the table has the key, and the value computed otherwise
Tabulated(table, key, value) == IF key \in DOMAIN table THEN table[key] ELSE value

\* generate_flashcards is entered: without a credential straight to the
\* fallback generator
Generate ==
    /\ pc = "generate"
    /\ pc' = IF NoCredential(api_key) THEN "fallback" ELSE Strategies[1]
    /\ UNCHANGED <<api_key, handler, request, connection, notes, count, sentence_idx,
                   partial, calls, posts, exception, flashcard_pairs, generated,
                   flashcards, db, response>>
    /\ UNCHANGED returned

\* sentences[:count] without the short ones, for the call that is running
Sentences == QuestionSentencesTable[<<notes, count>>]

\* _generate_with_text_generation: one request, any response
TextGeneration ==
    /\ pc = "text_generation"
    /\ \E result \in TextGenerationResults : AfterStrategy("text_generation", result)
    /\ posts' = posts + 1
    /\ UNCHANGED <<api_key, handler, request, connection, notes, count, sentence_idx,
                   partial, generated, flashcards, db, response>>
    /\ UNCHANGED returned

\* _generate_with_question_generation: the request for the next sentence
QuestionGenerationPost ==
    /\ pc = "question_generation"
    /\ sentence_idx <= Len(Sentences)
    /\ \E r \in QuestionGenerationResponses :
           partial' = partial \o QuestionCards(Sentences[sentence_idx], r)
    /\ sentence_idx' = sentence_idx + 1
    /\ posts' = posts + 1
    /\ UNCHANGED <<api_key, handler, pc, request, connection, notes, count, calls,
                   exception, flashcard_pairs, generated, flashcards, db, response>>
    /\ UNCHANGED returned

\* _generate_with_question_generation returns after the last sentence
QuestionGenerationReturn ==
    /\ pc = "question_generation"
    /\ sentence_idx > Len(Sentences)
    /\ AfterStrategy("question_generation", [raised |-> FALSE, flashcards |-> partial])
    /\ sentence_idx' = 1
    /\ partial' = <<>>
    /\ UNCHANGED <<api_key, handler, request, connection, notes, count, posts,
                   generated, flashcards, db, response>>
    /\ UNCHANGED returned

\* _generate_with_keyword_extraction, for any order of the concept list
KeywordExtraction ==
    /\ pc = "keyword_extraction"
    /\ \E cards \in KeywordTable[<<notes, count>>] :
           AfterStrategy("keyword_extraction", [raised |-> FALSE, flashcards |-> cards])
    /\ UNCHANGED <<api_key, handler, request, connection, notes, count, sentence_idx,
                   partial, posts, generated, flashcards, db, response>>
    /\ UNCHANGED returned

\* _create_fallback_flashcards, for any order of the concept list
FallbackWith(table) ==
    /\ pc = "fallback"
    /\ \E cards \in table[<<notes, count>>] :
           /\ flashcard_pairs' = cards
           /\ calls' = Append(calls, [strategy |-> "fallback", raised |-> FALSE,
                                      enough |-> Len(cards) >= count, output |-> cards])
    /\ pc' = AfterGenerate
    /\ UNCHANGED <<api_key, handler, request, connection, notes, count, sentence_idx,
                   partial, posts, exception, generated, flashcards, db, response>>
    /\ UNCHANGED returned

Fallback == FallbackWith(FallbackTable)

\* the same step on the notes create_deck passes on
FallbackDeck == FallbackWith(FallbackDeckTable)

\* ------------------------------------------------------------------------
\* generate_flashcards_with_ai and validate_flashcard_quality
\* ------------------------------------------------------------------------

\* a call of generate_flashcards_with_ai(notes, count)
GenerateFlashcardsWithAi ==
    /\ pc = "idle"
    /\ handler' = "generate_flashcards_with_ai"
    /\ \E n \in NotesSet, c \in Counts : notes' = n /\ count' = c
    /\ pc' = "generate"
    /\ UNCHANGED <<api_key, request, connection, sentence_idx, partial, calls, posts,
                   exception, flashcard_pairs, generated, flashcards, db, response>>
    /\ UNCHANGED returned

\* the conversion loop of generate_flashcards_with_ai, and its return
Classify ==
    /\ pc = "classify"
    /\ generated' = Tabulated(ToDictionariesTable, flashcard_pairs,
                              ToDictionaries(flashcard_pairs))
    /\ pc' = IF handler = "create_deck" THEN "validate" ELSE "done"
    /\ UNCHANGED <<api_key, handler, request, connection, notes, count, sentence_idx,
                   partial, calls, posts, exception, flashcard_pairs, flashcards, db,
                   response>>
    /\ UNCHANGED returned

\* validate_flashcard_quality(flashcards)
Validate ==
    /\ pc = "validate"
    /\ flashcards' = Tabulated(ValidateTable, generated, validate_flashcard_quality(generated))
    /\ pc' = IF handler = "create_deck" THEN "finish" ELSE "done"
    /\ UNCHANGED <<api_key, handler, request, connection, notes, count, sentence_idx,
                   partial, calls, posts, exception, flashcard_pairs, generated, db,
                   response>>
    /\ UNCHANGED returned

\* ------------------------------------------------------------------------
\* app.py: create_deck
\* ------------------------------------------------------------------------
Status(code, error) == [status |-> code, error |-> error]

\* create_deck up to the call of the generator: the session and field
\* checks, get_db_connection (None when connecting fails), and
\* preprocess_notes_for_ai, which raises LookupError when the tokenizer data
\* is not installed
CreateDeckWith(notes_set) ==
    /\ pc = "idle"
    /\ handler' = "create_deck"
    /\ \E user_id \in {0, 1}, data \in {"none", "title", "title_notes"},
          n \in notes_set, connects \in BOOLEAN, tokenizer \in BOOLEAN :
          /\ data # "title_notes" => n = <<>>
          /\ request' = [user_id |-> user_id, data |-> data, notes |-> n]
          /\ IF user_id = 0
             THEN /\ response' = Status(401, "Authentication required")
                  /\ pc' = "done"
                  /\ UNCHANGED <<connection, notes, count, exception>>
             ELSE IF data # "title_notes"
             THEN /\ response' = Status(400, "Missing title or notes")
                  /\ pc' = "done"
                  /\ UNCHANGED <<connection, notes, count, exception>>
             ELSE IF ~connects
             THEN /\ response' = Status(500, "Database connection failed")
                  /\ pc' = "done"
                  /\ UNCHANGED <<connection, notes, count, exception>>
             ELSE IF ~tokenizer
             THEN /\ connection' = "open"
                  /\ exception' = "LookupError"
                  /\ pc' = "finish"
                  /\ UNCHANGED <<notes, count, response>>
             ELSE /\ connection' = "open"
                  /\ notes' = PreprocessedNotes[n]
                  /\ count' = DeckCardCount
                  /\ pc' = "generate"
                  /\ UNCHANGED <<exception, response>>
    /\ UNCHANGED <<api_key, sentence_idx, partial, calls, posts, flashcard_pairs,
                   generated, flashcards, db>>
    /\ UNCHANGED returned

\* a create_deck request with any of the notes
CreateDeck == CreateDeckWith(NotesSet)

\* a create_deck request with any of the notes, those that repeat a sentence
\* included
CreateDeckRepeated == CreateDeckWith(DeckNotes)

\* fault: no rollback when an insert or the commit raises
TryBlock_NoRollback(failure) ==
    IF exception # ""
    THEN [response |-> Status(500, exception), cursor |-> FALSE, db |-> db]
    ELSE IF Len(flashcards) < MinFlashcards
    THEN [response |-> Status(400, "Unable to generate sufficient flashcards"),
          cursor |-> FALSE, db |-> db]
    ELSE IF failure = "cursor"
    THEN [response |-> Status(500, "Error"), cursor |-> FALSE, db |-> db]
    ELSE IF failure \in {"insert", "commit"}
    THEN [response |-> Status(500, "Error"), cursor |-> TRUE,
          db |-> Append(db, Len(flashcards))]
    ELSE [response |-> Status(201, ""), cursor |-> TRUE, db |-> Append(db, Len(flashcards))]

\* the try block of create_deck from the minimum check on, with its except
\* clause: the response it returns, whether cursor was assigned, and the rows
\* committed.  failure names the database call that raises, if any.
TryBlock(failure) ==
    IF exception # ""
    THEN [response |-> Status(500, exception), cursor |-> FALSE, db |-> db]
    ELSE IF Len(flashcards) < MinFlashcards
    THEN [response |-> Status(400, "Unable to generate sufficient flashcards"),
          cursor |-> FALSE, db |-> db]
    ELSE IF failure = "cursor"
    THEN [response |-> Status(500, "Error"), cursor |-> FALSE, db |-> db]
    ELSE IF failure \in {"insert", "commit"}
    THEN [response |-> Status(500, "Error"), cursor |-> TRUE, db |-> db]
    ELSE [response |-> Status(201, ""), cursor |-> TRUE, db |-> Append(db, Len(flashcards))]

\* the finally clause: cursor.close() when the connection is still up; the
\* name cursor is unbound when the try block left before assigning it, and
\* the UnboundLocalError replaces the response
Finally(try, is_connected) ==
    IF is_connected /\ ~try.cursor
    THEN Status(500, "UnboundLocalError")
    ELSE try.response

\* create_deck after validation, or after an exception of the try block
Finish ==
    /\ pc = "finish"
    /\ \E failure \in {"none", "cursor", "insert", "commit"}, is_connected \in BOOLEAN :
           LET try == TryBlock(failure)
           IN  /\ response' = Finally(try, is_connected)
               /\ db' = try.db
    /\ connection' = "closed"
    /\ exception' = ""
    /\ pc' = "done"
    /\ UNCHANGED <<api_key, handler, request, notes, count, sentence_idx, partial,
                   calls, posts, flashcard_pairs, generated, flashcards>>
    /\ UNCHANGED returned

\* ------------------------------------------------------------------------
\* Specifications
\* ------------------------------------------------------------------------
Next ==
    \/ CreateDeck
    \/ GenerateFlashcardsWithAi
    \/ Generate
    \/ TextGeneration
    \/ QuestionGenerationPost
    \/ QuestionGenerationReturn
    \/ KeywordExtraction
    \/ Fallback
    \/ Classify
    \/ Validate
    \/ Finish

\* the pipeline: one create_deck request or one call of
\* generate_flashcards_with_ai, with any behaviour of the endpoint
Spec == Init /\ [][Next]_vars

\* the pipeline when every call that is under way returns: the handler runs
\* in one thread, and each request of a strategy has a timeout
SpecLive == Spec /\ WF_vars(Next)

\* create_deck requests served without a credential: only the fallback
\* generator runs
InitNoCredential ==
    /\ api_key \in {k \in ApiKeys : NoCredential(k)}
    /\ handler = "none"
    /\ pc = "idle"
    /\ Blank

NextNoCredential ==
    \/ CreateDeckRepeated
    \/ Generate
    \/ FallbackDeck
    \/ Classify
    \/ Validate
    \/ Finish

SpecNoCredential == InitNoCredential /\ [][NextNoCredential]_vars

\* _create_fallback_flashcards called on any notes and count
InitFallback ==
    /\ api_key \in ApiKeys
    /\ handler = "_create_fallback_flashcards"
    /\ pc = "fallback"
    /\ request = NoRequest
    /\ connection = "none"
    /\ notes \in NotesSet
    /\ count \in Counts
    /\ sentence_idx = 1
    /\ partial = <<>>
    /\ calls = <<>>
    /\ posts = 0
    /\ exception = ""
    /\ flashcard_pairs = <<>>
    /\ generated = <<>>
    /\ flashcards = <<>>
    /\ db = <<>>
    /\ response = NoResponse
    /\ returned = <<>>

SpecFallback == InitFallback /\ [][Fallback]_vars

\* _create_fallback_flashcards called once more with the same notes and
\* count, by the same process or by another
FallbackAgain ==
    /\ handler = "_create_fallback_flashcards"
    /\ pc = "done"
    /\ Len(calls) < 2
    /\ pc' = "fallback"
    /\ UNCHANGED <<api_key, handler, request, connection, notes, count, sentence_idx,
                   partial, calls, posts, exception, flashcard_pairs, generated,
                   flashcards, db, response, returned>>

SpecFallbackTwice == InitFallback /\ [][Fallback \/ FallbackAgain]_vars

\* validate_flashcard_quality called on any list of cards
InitValidate ==
    /\ api_key = "None"
    /\ handler = "validate_flashcard_quality"
    /\ pc = "validate"
    /\ request = NoRequest
    /\ connection = "none"
    /\ notes = <<>>
    /\ count = 0
    /\ sentence_idx = 1
    /\ partial = <<>>
    /\ calls = <<>>
    /\ posts = 0
    /\ exception = ""
    /\ flashcard_pairs = <<>>
    /\ generated \in CardLists(MaxCards)
    /\ flashcards = <<>>
    /\ db = <<>>
    /\ response = NoResponse
    /\ returned = <<>>

SpecValidate == InitValidate /\ [][Validate]_vars

\* assess_difficulty called, through the conversion loop, on a question of
\* any number of words with any ending and an answer of any number of words
InitDifficulty ==
    /\ api_key = "None"
    /\ handler = "assess_difficulty"
    /\ pc = "classify"
    /\ request = NoRequest
    /\ connection = "none"
    /\ notes = <<>>
    /\ count = 0
    /\ sentence_idx = 1
    /\ partial = <<>>
    /\ calls = <<>>
    /\ posts = 0
    /\ exception = ""
    /\ \E n \in 0..MaxQuestionWords, e \in ComplexEndings \cup PlainEndings,
          m \in 0..MaxAnswerWords :
          flashcard_pairs = <<FlashcardPair(DifficultyQuestion(n, e), DifficultyAnswer(m), 0)>>
    /\ generated = <<>>
    /\ flashcards = <<>>
    /\ db = <<>>
    /\ response = NoResponse
    /\ returned = <<>>

SpecDifficulty == InitDifficulty /\ [][Classify]_vars

\* ------------------------------------------------------------------------
\* helpers of the generator and of the text processor called on their own
\* ------------------------------------------------------------------------

\* words put into the sentences that are scored: cue phrases of four of the
\* categories, two of them of one category, and a word that is no cue
ScoreWords ==
    { <<"p", "r", "o", "c", "e", "s", "s">>, <<"m", "e", "t", "h", "o", "d">>, <<"s", "t", "e", "p", "s">>, <<"b", "e", "c", "a", "u", "s", "e">>, <<"u", "n", "l", "i", "k", "e">>, <<"i", "m", "p", "o", "r", "t", "a", "n", "t">>,
      <<"c", "r", "u", "c", "i", "a", "l">>, <<"d", "e", "f", "i", "n", "e">>, <<"w", "a", "l", "l">> }

\* the sentences that are scored: two words in a frame of plain words, and
\* sentences that are short, hold a number, a capitalized word, or end with ?
ScoreSentences ==
    {<<"t", "h", "e", " ", "c", "e", "l", "l", " ", "h", "a", "s", " ", "a", " ">> \o a \o <<" ", "a", "n", "d", " ", "a", " ">> \o b \o <<" ", "i", "n", " ", "i", "t", ".">> : a, b \in ScoreWords}
    \cup { <<"W", "h", "y", "?">>, <<"I", "n", " ", "1", "9", "0", "5", " ", "E", "i", "n", "s", "t", "e", "i", "n", " ", "s", "h", "o", "w", "e", "d", " ", "t", "h", "e", " ", "m", "e", "t", "h", "o", "d", ".">>,
           <<"I", "s", " ", "t", "h", "e", " ", "P", "r", "o", "c", "e", "s", "s", " ", "a", " ", "M", "e", "t", "h", "o", "d", " ", "o", "f", " ", "3", " ", "s", "t", "e", "p", "s", "?">> }

\* TextProcessor()._score_sentence(sentence, sentence) on any of the sentences
InitScore ==
    /\ api_key = "None"
    /\ handler = "_score_sentence"
    /\ pc = "score"
    /\ request = NoRequest
    /\ connection = "none"
    /\ notes \in ScoreSentences
    /\ count = 0
    /\ sentence_idx = 1
    /\ partial = <<>>
    /\ calls = <<>>
    /\ posts = 0
    /\ exception = ""
    /\ flashcard_pairs = <<>>
    /\ generated = <<>>
    /\ flashcards = <<>>
    /\ db = <<>>
    /\ response = NoResponse
    /\ returned = <<>>

ScoreSentence ==
    /\ handler = "_score_sentence"
    /\ pc = "score"
    /\ returned' = _score_sentence(notes, notes)
    /\ pc' = "done"
    /\ UNCHANGED <<api_key, handler, request, connection, notes, count, sentence_idx,
                   partial, calls, posts, exception, flashcard_pairs, generated,
                   flashcards, db, response>>

SpecScore == InitScore /\ [][ScoreSentence]_vars

\* the texts the concept extractor is called on: the notes, and a sentence
\* with a quoted and a parenthesized term
ConceptTexts ==
    NotesSet \cup { <<"T", "h", "e", " ", "\"", "K", "r", "e", "b", "s", " ", "C", "y", "c", "l", "e", "\"", " ", "o", "c", "c", "u", "r", "s", " ", "i", "n", " ", "m", "i", "t", "o", "c", "h", "o", "n", "d", "r", "i", "a", " ", "(", "t", "h", "e", " ", "p", "o", "w", "e", "r", "h", "o", "u", "s", "e", ")", ".">> }

\* AIFlashcardGenerator()._extract_key_concepts(text) on any of the texts
InitConcepts ==
    /\ api_key \in ApiKeys
    /\ handler = "_extract_key_concepts"
    /\ pc = "extract"
    /\ request = NoRequest
    /\ connection = "none"
    /\ notes \in ConceptTexts
    /\ count = 0
    /\ sentence_idx = 1
    /\ partial = <<>>
    /\ calls = <<>>
    /\ posts = 0
    /\ exception = ""
    /\ flashcard_pairs = <<>>
    /\ generated = <<>>
    /\ flashcards = <<>>
    /\ db = <<>>
    /\ response = NoResponse
    /\ returned = <<>>

\* the list returned is in one of the orders the set of concepts can have
ExtractKeyConcepts ==
    /\ handler = "_extract_key_concepts"
    /\ pc = "extract"
    /\ \E concepts \in _extract_key_concepts(notes) : returned' = concepts
    /\ pc' = "done"
    /\ UNCHANGED <<api_key, handler, request, connection, notes, count, sentence_idx,
                   partial, calls, posts, exception, flashcard_pairs, generated,
                   flashcards, db, response>>

SpecConcepts == InitConcepts /\ [][ExtractKeyConcepts]_vars

\* the largest count the keyword strategy is called with on its own
MaxKeywordCount == 7

\* the texts the keyword strategy is called with: six capitalized concepts
\* and a quoted one that no sentence contains, because a full stop splits it;
\* the same with three concepts; a text without concepts; one of the notes
KeywordTexts ==
    { <<"L", "i", "g", "h", "t", ",", " ", "W", "a", "t", "e", "r", ",", " ", "S", "o", "i", "l", " ", "a", "n", "d", " ", "R", "o", "o", "t", "s", " ", "a", "r", "e", " ", "h", "e", "r", "e", ".", " ", "P", "l", "a", "n", "t", "s", " ", "f", "e", "e", "d", " ", "C", "a", "t", "s", " ", "a", "n", "d", " ", "s", "a", "y", " ", "\"", "n", "o", ".", " ", "y", "e", "s", "\"", " ", "t", "o", " ", "a", "l", "l", ".">>,
      <<"L", "i", "g", "h", "t", " ", "a", "n", "d", " ", "W", "a", "t", "e", "r", " ", "f", "e", "e", "d", " ", "u", "s", " ", "t", "o", "d", "a", "y", ".", " ", "C", "a", "t", "s", " ", "d", "o", " ", "s", "a", "y", " ", "\"", "n", "o", ".", " ", "y", "e", "s", "\"", " ", "t", "o", " ", "a", "l", "l", ".">>,
      <<"t", "h", "e", " ", "c", "e", "l", "l", " ", "h", "a", "s", " ", "a", " ", "w", "a", "l", "l", " ", "a", "n", "d", " ", "a", " ", "c", "o", "r", "e", " ", "i", "n", " ", "i", "t", "!", " ">>,
      <<"C", "h", "l", "o", "r", "o", "p", "h", "y", "l", "l", " ", "i", "s", " ", "t", "h", "e", " ", "g", "r", "e", "e", "n", " ", "p", "i", "g", "m", "e", "n", "t", " ", "i", "n", " ", "l", "e", "a", "v", "e", "s", ".", " ", "C", "a", "t", "s", " ", "a", "r", "e", " ", "n", "i", "c", "e", ".", " ">> }

\* AIFlashcardGenerator()._generate_with_keyword_extraction(notes, count)
InitKeyword ==
    /\ api_key = "None"
    /\ handler = "_generate_with_keyword_extraction"
    /\ pc = "keyword_extraction"
    /\ request = NoRequest
    /\ connection = "none"
    /\ notes \in KeywordTexts
    /\ count \in 1..MaxKeywordCount
    /\ sentence_idx = 1
    /\ partial = <<>>
    /\ calls = <<>>
    /\ posts = 0
    /\ exception = ""
    /\ flashcard_pairs = <<>>
    /\ generated = <<>>
    /\ flashcards = <<>>
    /\ db = <<>>
    /\ response = NoResponse
    /\ returned = <<>>

\* the list returned, for any order of the concept list
KeywordExtractionCall ==
    /\ handler = "_generate_with_keyword_extraction"
    /\ pc = "keyword_extraction"
    /\ \E cards \in KeywordResults(notes, count) : returned' = cards
    /\ pc' = "done"
    /\ UNCHANGED <<api_key, handler, request, connection, notes, count, sentence_idx,
                   partial, calls, posts, exception, flashcard_pairs, generated,
                   flashcards, db, response>>

SpecKeyword == InitKeyword /\ [][KeywordExtractionCall]_vars

\* the largest number of question and answer blocks of a text that is parsed
MaxBlocks == 3

\* questions and answers of the blocks: longer than 5 characters, without
\* Q:, A:, Question: or Answer: in any case; one answer ends with a number
BlockQuestions == { <<"W", "h", "a", "t", " ", "i", "s", " ", "c", "h", "l", "o", "r", "o", "p", "h", "y", "l", "l", "?">>, <<"W", "h", "e", "n", " ", "w", "a", "s", " ", "i", "t", " ", "f", "o", "u", "n", "d", "?">>, <<"W", "h", "a", "t", " ", "i", "s", " ", "l", "i", "g", "h", "t", "?">> }
BlockAnswers == { <<"T", "h", "e", " ", "g", "r", "e", "e", "n", " ", "p", "i", "g", "m", "e", "n", "t", ".">>, <<"I", "t", " ", "w", "a", "s", " ", "f", "o", "u", "n", "d", " ", "i", "n", " ", "1", "9", "0", "5", ".">>, <<"E", "n", "e", "r", "g", "y", " ", "w", "e", " ", "c", "a", "n", " ", "s", "e", "e">> }

\* the lists of at most n pairs of a question and an answer
RECURSIVE BlockLists(_)
BlockLists(n) ==
    IF n = 0 THEN {<<>>}
    ELSE BlockLists(n - 1)
         \cup {Append(l, <<q, a>>) : l \in {b \in BlockLists(n - 1) : Len(b) = n - 1},
                                     q \in BlockQuestions, a \in BlockAnswers}

\* the text made of the blocks 'Q: q A: a' of the pairs, sep between them
RECURSIVE BlockText(_, _)
BlockText(pairs, sep) ==
    IF Len(pairs) = 0 THEN <<>>
    ELSE (IF Len(pairs) = 1 THEN <<>>
          ELSE BlockText(SubSeq(pairs, 1, Len(pairs) - 1), sep) \o sep)
         \o <<"Q", ":", " ">> \o pairs[Len(pairs)][1] \o <<" ", "A", ":", " ">> \o pairs[Len(pairs)][2]

\* the texts of blocks, with a blank or a newline between the blocks
BlockTexts ==
    Explicit([b \in BlockLists(MaxBlocks) \X {" ", "\n"} |-> BlockText(b[1], <<b[2]>>)])

\* the text made of the numbered blocks '1. Q: q A: a', a blank between them
RECURSIVE NumberedText(_)
NumberedText(pairs) ==
    IF Len(pairs) = 0 THEN <<>>
    ELSE (IF Len(pairs) = 1 THEN <<>>
          ELSE NumberedText(SubSeq(pairs, 1, Len(pairs) - 1)) \o <<" ">>)
         \o str(Len(pairs)) \o <<".", " ", "Q", ":", " ">> \o pairs[Len(pairs)][1]
         \o <<" ", "A", ":", " ">> \o pairs[Len(pairs)][2]

\* the texts of numbered blocks
NumberedTexts == Explicit([b \in BlockLists(MaxBlocks) |-> NumberedText(b)])

\* AIFlashcardGenerator()._parse_generated_flashcards(text) on a text of
\* blocks, of numbered blocks, or on one of the texts the model may return
InitParse ==
    /\ api_key = "None"
    /\ handler = "_parse_generated_flashcards"
    /\ pc = "parse"
    /\ request = NoRequest
    /\ connection = "none"
    /\ notes \in Range(BlockTexts) \cup Range(NumberedTexts) \cup GeneratedTexts
    /\ count = 0
    /\ sentence_idx = 1
    /\ partial = <<>>
    /\ calls = <<>>
    /\ posts = 0
    /\ exception = ""
    /\ flashcard_pairs = <<>>
    /\ generated = <<>>
    /\ flashcards = <<>>
    /\ db = <<>>
    /\ response = NoResponse
    /\ returned = <<>>

ParseGeneratedFlashcards ==
    /\ handler = "_parse_generated_flashcards"
    /\ pc = "parse"
    /\ returned' = _parse_generated_flashcards(notes)
    /\ pc' = "done"
    /\ UNCHANGED <<api_key, handler, request, connection, notes, count, sentence_idx,
                   partial, calls, posts, exception, flashcard_pairs, generated,
                   flashcards, db, response>>

SpecParse == InitParse /\ [][ParseGeneratedFlashcards]_vars


\* ------------------------------------------------------------------------
\* Properties
\* ------------------------------------------------------------------------

\* the strategies and then the fallback generator, in the order of the loop
Order == Strategies \o <<"fallback">>

\* generate_flashcards has just returned
Returned == pc = "classify"

\* no strategy of the log produced count cards or more
NoneEnough == \A k \in DOMAIN calls : calls[k].strategy = "fallback" \/ ~calls[k].enough

\* C1: for every notes text and every count >= 1 the fallback generator
\* returns a list of exactly count cards, whatever the notes hold
C1_FallbackReturnsCount ==
    pc = "done" => (count >= 1 /\ Len(flashcard_pairs) = count)

\* notes without sentence or concept: every card is a padding card
C1_Witness ==
    /\ pc = "done"
    /\ handler = "_create_fallback_flashcards"
    /\ Len(notes) = 0
    /\ count > 1
    /\ Len(flashcard_pairs) = count
    /\ flashcard_pairs[count].confidence = 1

\* C2: with a credential the strategies are tried in the order free text,
\* per sentence, keyword template; the first that yields count cards or more
\* ends the loop, its first count cards are returned, and nothing is invoked
\* after it
C2_FirstSufficientStrategyWins ==
    api_key = "hf_key" =>
        /\ Len(calls) <= Len(Order)
        /\ \A k \in DOMAIN calls : calls[k].strategy = Order[k]
        /\ \A k \in DOMAIN calls : k < Len(calls) => ~calls[k].enough
        /\ pc \in Range(Order) =>
               /\ pc = Order[Len(calls) + 1]
               /\ \A k \in DOMAIN calls : ~calls[k].enough
        /\ (Returned /\ calls[Len(calls)].strategy # "fallback") =>
               /\ calls[Len(calls)].enough
               /\ flashcard_pairs = SubSeq(calls[Len(calls)].output, 1, count)

\* the first two strategies produced too little and the third enough
C2_Witness ==
    /\ Returned
    /\ api_key = "hf_key"
    /\ Len(calls) = 3
    /\ ~calls[1].raised /\ ~calls[1].enough
    /\ ~calls[2].enough
    /\ calls[3].enough
    /\ Len(flashcard_pairs) = count

\* C3: a strategy that fails never makes generate_flashcards fail: it is
\* invoked once, the next in order is attempted, and when no strategy
\* reaches count cards the result is the fallback generator's
C3_FailedStrategyIsSkipped ==
    /\ exception # "StrategyError"
    /\ \A j, k \in DOMAIN calls : calls[j].strategy = calls[k].strategy => j = k
    /\ \A k \in DOMAIN calls :
           calls[k].raised =>
               LET next == Order[k + 1]
               IN  /\ calls[k].strategy = Order[k]
                   /\ IF k < Len(calls) THEN calls[k + 1].strategy = next ELSE pc = next
    /\ (Returned /\ NoneEnough) =>
           /\ calls[Len(calls)].strategy = "fallback"
           /\ flashcard_pairs \in FallbackResults(notes, count)

\* the first strategy raised, the other two produced too little, and the
\* fallback generator's cards were returned
C3_Witness ==
    /\ Returned
    /\ Len(calls) = 4
    /\ calls[1].raised
    /\ NoneEnough
    /\ Len(notes) > 0
    /\ Len(flashcard_pairs) = count

\* C4: without a credential generate_flashcards makes no outbound request
\* and invokes no strategy; it returns the fallback generator's result for
\* the same notes and count, and signals no error
C4_NoCredentialGoesToFallback ==
    api_key \in {"None", ""} =>
        /\ posts = 0
        /\ Len(calls) <= 1
        /\ \A k \in DOMAIN calls : calls[k].strategy = "fallback"
        /\ pc \notin Range(Strategies)
        /\ Returned =>
               /\ Len(calls) = 1
               /\ exception = ""
               /\ flashcard_pairs \in FallbackResults(notes, count)

\* the key is set to the empty string and the call has returned
C4_Witness ==
    /\ Returned
    /\ api_key = ""
    /\ Len(notes) > 0
    /\ posts = 0
    /\ Len(calls) = 1
    /\ Len(flashcard_pairs) = count

\* C5: an authenticated create_deck request with title and notes that got a
\* connection and is left with fewer than 3 validated cards is answered with
\* the 400 for insufficient flashcards, and with no other status
C5_InsufficientAnswers400 ==
    (/\ handler = "create_deck"
     /\ pc = "done"
     /\ connection = "closed"
     /\ Len(calls) > 0
     /\ Len(flashcards) < MinFlashcards)
        => response = Status(400, "Unable to generate sufficient flashcards")

\* C6: whatever the strategies do, generate_flashcards_with_ai returns
\* exactly count records, each with question, answer, confidence and a
\* difficulty_level among easy, medium, hard
C6_ReturnsCountRecords ==
    (pc \in {"validate", "finish", "done"} /\ Len(calls) > 0) =>
        /\ count >= 1
        /\ Len(generated) = count
        /\ \A k \in DOMAIN generated :
               /\ DOMAIN generated[k] = {"question", "answer", "difficulty_level", "confidence"}
               /\ generated[k].difficulty_level \in {"easy", "medium", "hard"}

\* the first strategy produced more than count cards
C6_Witness ==
    /\ pc = "done"
    /\ handler = "generate_flashcards_with_ai"
    /\ Len(calls) = 1
    /\ calls[1].strategy = "text_generation"
    /\ Len(calls[1].output) > count
    /\ Len(generated) = count

\* C7: no two cards of the output of validate_flashcard_quality have
\* case-insensitively equal questions, whatever whitespace the questions of
\* the input carry
C7_NoDuplicateQuestions ==
    (handler = "validate_flashcard_quality" /\ pc = "done") =>
        \A j, k \in DOMAIN flashcards :
            j < k => lower(flashcards[j].question) # lower(flashcards[k].question)

\* C8: every card of the output of validate_flashcard_quality has a
\* question of trimmed length 5 or more and an answer of trimmed length 3 or
\* more
C8_KeptCardsLongEnough ==
    (handler = "validate_flashcard_quality" /\ pc = "done") =>
        \A k \in DOMAIN flashcards :
            /\ Len(strip(get(flashcards[k], "question"))) >= 5
            /\ Len(strip(get(flashcards[k], "answer"))) >= 3

\* a card whose answer has three characters, two once trimmed, was dropped
\* and another card was kept
C8_Witness ==
    /\ handler = "validate_flashcard_quality"
    /\ pc = "done"
    /\ Len(flashcards) = 1
    /\ Len(generated) = 2
    /\ Len(get(generated[1], "question")) >= 5
    /\ Len(get(generated[1], "answer")) = 3
    /\ Len(strip(get(generated[1], "answer"))) = 2
    /\ flashcards[1] = generated[2]

\* out is made of elements of in, in the order of in, each one unchanged
IsSubsequence(out, in) ==
    \E f \in [DOMAIN out -> DOMAIN in] :
        /\ \A j, k \in DOMAIN out : j < k => f[j] < f[k]
        /\ \A k \in DOMAIN out : out[k] = in[f[k]]

\* C9: the output of validate_flashcard_quality is a subsequence of its
\* input: the cards in their input order, none added, every field of a kept
\* card as it was
C9_OutputIsSubsequence ==
    (handler = "validate_flashcard_quality" /\ pc = "done") =>
        IsSubsequence(flashcards, generated)

\* the first and the last of three cards were kept, the first with a
\* question that carries whitespace
C9_Witness ==
    /\ handler = "validate_flashcard_quality"
    /\ pc = "done"
    /\ Len(generated) = 3
    /\ flashcards = <<generated[1], generated[3]>>
    /\ generated[1].question # strip(generated[1].question)

\* the label the rule gives a question of n plain words closed by ending and
\* an answer of m words
ExpectedDifficulty(n, ending, m) ==
    IF ending \in ComplexEndings \/ m > 20 THEN "hard"
    ELSE IF n + 1 > 10 \/ m > 10 THEN "medium"
    ELSE "easy"

\* C10: assess_difficulty returns hard when the question contains analyze,
\* evaluate, synthesize, compare or contrast in any case or the answer has
\* more than 20 words, otherwise medium when the question or the answer has
\* more than 10 words, otherwise easy
C10_DifficultyRule ==
    (handler = "assess_difficulty" /\ pc = "done") =>
        /\ Len(generated) = 1
        /\ \E n \in 0..MaxQuestionWords, ending \in ComplexEndings \cup PlainEndings :
               /\ n * Len(Plain(1)) + Len(ending) = Len(flashcard_pairs[1].question)
               /\ flashcard_pairs[1].question = DifficultyQuestion(n, ending)
               /\ LET m == Len(flashcard_pairs[1].answer) \div Len(Plain(1))
                  IN  /\ flashcard_pairs[1].answer = DifficultyAnswer(m)
                      /\ generated[1].difficulty_level = ExpectedDifficulty(n, ending, m)

\* a question of 3 words that contains COMPARE, with an answer of 25 words
C10_Witness ==
    /\ handler = "assess_difficulty"
    /\ pc = "done"
    /\ flashcard_pairs[1].question = DifficultyQuestion(2, <<"C", "O", "M", "P", "A", "R", "E">>)
    /\ flashcard_pairs[1].answer = DifficultyAnswer(25)
    /\ generated[1].difficulty_level = "hard"

\* create_deck has answered a request that went through generation and
\* validation
Answered ==
    /\ handler = "create_deck"
    /\ pc = "done"
    /\ connection = "closed"
    /\ Len(calls) > 0

\* C11: an authenticated create_deck request with title and notes whose
\* generation yields k distinct valid cards, k = 2 as in the test, is
\* answered 201 and the deck is stored with k cards
C11_TwoCardsCreateDeck ==
    (Answered /\ Len(flashcards) = 2) => (response.status = 201 /\ db = <<2>>)

\* C12: the fallback generator is deterministic: two invocations with the
\* same notes and the same count return the same list of cards in the same
\* order
C12_FallbackDeterministic ==
    (handler = "_create_fallback_flashcards" /\ Len(calls) = 2) =>
        calls[1].output = calls[2].output

\* the call has returned and generate_flashcards gave it count cards: the
\* result of generate_flashcards_with_ai, or in create_deck the list that was
\* validated and then accepted or refused for being shorter than
\* MinFlashcards (the response sent in that case is what C5 is about)
PipelineDone ==
    /\ pc = "done"
    /\ exception = ""
    /\ count >= 1
    /\ Len(generated) = count
    /\ handler \in {"generate_flashcards_with_ai", "create_deck"}
    /\ handler = "create_deck" => response.status # 0

C14_ValidateBeforeClassify ==
    handler = "create_deck" =>
        /\ pc = "validate" =>
               \A k \in DOMAIN generated : "difficulty_level" \notin DOMAIN generated[k]
        /\ (pc = "finish" /\ exception = "") => Len(flashcards) = Len(generated)

\* the sentences of the notes that yield a fill-in-the-blank card
EligibleSentences ==
    SelectSeq(_split_into_sentences(notes), LAMBDA s : Len(BlankCards(s)) > 0)

\* the slots left after the concept cards (confidence 0.3) of the result
RemainingSlots ==
    count - Len(SelectSeq(flashcard_pairs, LAMBDA c : c.confidence = 3))

\* C15: in the result of the fallback generator the fill-in-the-blank cards
\* are those of the eligible sentences, in order, as many as there are slots
\* left after the concept cards; a "Review question" card is there only when
\* the eligible sentences are fewer than those slots
C15_IneligibleSentenceTakesNoSlot ==
    (handler = "_create_fallback_flashcards" /\ pc = "done") =>
        /\ SelectSeq(flashcard_pairs, LAMBDA c : c.confidence = 4)
               = BlankLoop(Take(EligibleSentences, RemainingSlots))
        /\ (\E k \in DOMAIN flashcard_pairs : flashcard_pairs[k].confidence = 1)
               => Len(EligibleSentences) < RemainingSlots

\* the categories of academic_keywords with a phrase in the lowered sentence
CategoriesMatched(sentence_lower) ==
    {c \in DOMAIN AcademicKeywords :
        \E k \in DOMAIN AcademicKeywords[c] : Contains(sentence_lower, AcademicKeywords[c][k])}

\* the terms of the score other than the cue phrases, in tenths: the length,
\* the capitalized words, the numbers and the closing question mark
OtherTerms(sentence) ==
    _score_sentence(sentence, sentence) - KeywordScore(lower(sentence))

\* C16: the score of a sentence gains 0.5 once for each category of cue
\* phrases that has a phrase in the sentence, however many of the category's
\* phrases the sentence holds
C16_HalfPointPerCategory ==
    (handler = "_score_sentence" /\ pc = "done") =>
        returned = OtherTerms(notes) + 5 * Cardinality(CategoriesMatched(lower(notes)))

\* the substrings of s between an opening parenthesis and the next closing
\* one, one character or more
ParenthesizedSubstrings(s) ==
    {SubSeq(s, i + 1, FirstIn(s, i + 1, {")"}) - 1) :
        i \in {j \in 1..Len(s) : /\ s[j] = "("
                                 /\ FirstIn(s, j + 1, {")"}) <= Len(s)
                                 /\ FirstIn(s, j + 1, {")"}) > j + 1}}

\* C17: the concepts returned for a text include every parenthesized
\* substring of the text that is longer than 2 and shorter than 50
\* characters; for the sentence about the Krebs Cycle they include the
\* quoted term Krebs Cycle and the parenthesized term the powerhouse
C17_ParenthesizedConcepts ==
    (handler = "_extract_key_concepts" /\ pc = "done") =>
        \A p \in ParenthesizedSubstrings(notes) :
            (2 < Len(p) /\ Len(p) < 50) => p \in Range(returned)

\* C18: every card the per-sentence question generation strategy returned
\* has a question that is longer than 10 characters once trimmed, has the
\* trimmed sentence it was made from as its answer, and has confidence 0.8
C18_QuestionLongerThanTen ==
    \A c \in DOMAIN calls :
        calls[c].strategy = "question_generation" =>
            \A k \in DOMAIN calls[c].output :
                /\ Len(strip(calls[c].output[k].question)) > 10
                /\ calls[c].output[k].confidence = 8
                /\ \E s \in Range(_split_into_sentences(notes)) :
                       calls[c].output[k].answer = strip(s)

\* the concepts of a text: the capitalized runs, the quoted terms and what
\* the third pattern finds, longer than 2 and shorter than 50 characters
ConceptSet(text) ==
    {c \in Range(FindCapitalized(text, 1) \o FindQuoted(text, 1) \o FindParentheses(text)) :
        2 < Len(c) /\ Len(c) < 50}

\* the numbers of the templates that give the question for one of the concepts
TemplatesOf(question, concepts) ==
    {t \in 0..4 : \E c \in concepts : question = QuestionTemplate(t, c)}

\* C19: the k-th card the keyword strategy emits (from 0) has the question
\* of template k mod 5 for a concept that a sentence contains, so five
\* consecutive cards use the five templates; a concept that no sentence
\* contains gives no card and leaves the template index alone; at most
\* count concepts are examined, each of them once
C19_TemplateByCardIndex ==
    (handler = "_generate_with_keyword_extraction" /\ pc = "done") =>
        LET sentences == _split_into_sentences(notes)
            all       == ConceptSet(notes)
            emitting  == {c \in all : Len(RelevantSentences(sentences, c)) > 0}
            templates == [i \in 1..Len(returned) |-> TemplatesOf(returned[i].question, all)]
        IN  /\ \A i \in DOMAIN returned :
                   \E c \in emitting :
                       /\ returned[i].question = QuestionTemplate((i - 1) % 5, c)
                       /\ returned[i].answer = strip(RelevantSentences(sentences, c)[1])
                       /\ returned[i].confidence = 6
                       /\ \A j \in DOMAIN returned :
                              returned[j].question = QuestionTemplate((j - 1) % 5, c) => j = i
            /\ \A i, j \in DOMAIN returned :
                   (i < j /\ j < i + 5) => templates[i] \cap templates[j] = {}
            /\ Len(returned) <= count
            /\ Len(returned) + Cardinality(all \ emitting)
                   >= (IF count < Cardinality(all) THEN count ELSE Cardinality(all))

\* six cards were emitted for seven concepts examined: the sixth has the
\* first template again, and the quoted concept gave no card
C19_Witness ==
    /\ handler = "_generate_with_keyword_extraction"
    /\ pc = "done"
    /\ count = 7
    /\ Len(returned) = 6
    /\ Cardinality(ConceptSet(notes)) = 7
    /\ TemplatesOf(returned[6].question, ConceptSet(notes)) = {0}
    /\ TemplatesOf(returned[5].question, ConceptSet(notes)) = {4}

\* the candidates a text made of the blocks of pairs is to give: one for each
\* pair, in order, the question and the answer trimmed
BlockCandidates(pairs) ==
    [i \in 1..Len(pairs) |-> FlashcardPair(strip(pairs[i][1]), strip(pairs[i][2]), 7)]

\* C20: a text made of n blocks 'Q: q A: a', each q and a longer than 5
\* characters and without a label, parses to n candidates in the order of the
\* text, with the trimmed q as question and the trimmed a as answer
C20_BlocksParseToCandidates ==
    (handler = "_parse_generated_flashcards" /\ pc = "done") =>
        \A b \in DOMAIN BlockTexts :
            notes = BlockTexts[b] =>
                /\ Len(returned) = Len(b[1])
                /\ \A i \in DOMAIN returned :
                       /\ returned[i].question = BlockCandidates(b[1])[i].question
                       /\ returned[i].answer = BlockCandidates(b[1])[i].answer
\* ------------------------------------------------------------------------
\* Claims C21 to C24
\* ------------------------------------------------------------------------

\* C21: the tokenizer data being unavailable never surfaces as an error: no
\* LookupError propagates from preprocess_notes_for_ai, and no create_deck
\* request is answered with it
C21_TokenizerNeverAnError ==
    /\ exception # "LookupError"
    /\ response # Status(500, "LookupError")

\* C22: a pair of the generated text is emitted once even when more than
\* one pattern matches it: a text of n numbered pairs '1. Q: q A: a' gives
\* n candidates, in order, each answer without the number of the next pair
C22_NumberedPairsOnce ==
    (handler = "_parse_generated_flashcards" /\ pc = "done") =>
        \A b \in DOMAIN NumberedTexts :
            (notes = NumberedTexts[b] /\ Len(b) > 0) =>
                /\ Len(returned) = Len(b)
                /\ \A i \in 1..Len(b) :
                       /\ returned[i].question = strip(b[i][1])
                       /\ returned[i].answer = strip(b[i][2])

\* C23: without a credential, whatever the notes of a create_deck request,
\* at least 3 of the 5 cards of the fallback generator are left by
\* validate_flashcard_quality, so the request is never refused for want of
\* cards
C23_FallbackDeckHasThreeCards ==
    (/\ handler = "create_deck"
     /\ NoCredential(api_key)
     /\ pc = "finish"
     /\ exception = "") => Len(flashcards) >= MinFlashcards

\* the request was served without a credential and validation has just ended
FallbackDeckValidated ==
    /\ handler = "create_deck"
    /\ NoCredential(api_key)
    /\ pc = "finish"
    /\ exception = ""

\* C23, amended: without a credential at least 1 of the 5 cards of the
\* fallback generator is left by validate_flashcard_quality; all 5 are left
\* when their questions differ from one another with case ignored, as they do
\* for empty notes
C23_FallbackDeckHasOneCard ==
    FallbackDeckValidated =>
        /\ Len(generated) = DeckCardCount
        /\ Len(flashcards) >= 1
        /\ (\A i, j \in DOMAIN generated :
                lower(generated[i].question) = lower(generated[j].question) => i = j)
               => flashcards = generated
        /\ request.notes = <<>> => flashcards = generated

\* four copies of a sentence: the four fill-in-the-blank cards are one
\* question, and 2 cards are left
C23_Witness ==
    /\ FallbackDeckValidated
    /\ request.notes = Repeat(<<"p", "l", "a", "n", "t", "s", " ", "m", "a", "k", "e", " ", "t", "h", "e", "i", "r", " ", "f", "o", "o", "d", " ", "f", "r", "o", "m", " ", "l", "i", "g", "h", "t", ".", " ">>, 4)
    /\ Len(flashcards) = 2
    /\ flashcards[2].question = <<"R", "e", "v", "i", "e", "w", " ", "q", "u", "e", "s", "t", "i", "o", "n", " ", "5">>

=============================================================================
